---------------------------- MODULE Spec2Model ----------------------------
(***************************************************************************)
(* Model of the DynamoDB paper store of problem2: the loader               *)
(* (load_data.py: normalisation, keyword extraction, item builders, the    *)
(* batch writer) and the query layer (query_papers.py, api_server.py).     *)
(*                                                                         *)
(* A Python str is a sequence of one-character strings, so that strip,     *)
(* lower, slicing, concatenation and the store's byte-wise key order are   *)
(* computed and not assumed.  A list is a sequence of such strings.  An    *)
(* absent key, None and "" are all falsy in the code's `or` chains and     *)
(* are all written <<>>.                                                   *)
(***************************************************************************)
EXTENDS Integers, Sequences, FiniteSets, TLC

(***************************************************************************)
(* Bounds of the model.                                                    *)
(***************************************************************************)
MaxPapers == 2     \* longest input file, in documents
MaxLimit == 3      \* largest limit a query is given

(***************************************************************************)
(* Program constants.                                                      *)
(***************************************************************************)
FlushAmount == 25  \* batch_writer chunk size
TopK == 10         \* top_keywords_from_abstract(abstract, k=10)
DateLen == 10      \* ymd: len(s) >= 10, s[:10]

---------------------------------------------------------------------------
(***************************************************************************)
(* Characters and strings.                                                 *)
(***************************************************************************)
Ascii ==
    <<" ", "!", "\"", "#", "$", "%", "&", "'", "(", ")", "*", "+", ",", "-", ".", "/",
      "0", "1", "2", "3", "4", "5", "6", "7", "8", "9", ":", ";", "<", "=", ">", "?",
      "@", "A", "B", "C", "D", "E", "F", "G", "H", "I", "J", "K", "L", "M", "N", "O",
      "P", "Q", "R", "S", "T", "U", "V", "W", "X", "Y", "Z", "[", "\\", "]", "^", "_",
      "(backtick)", "a", "b", "c", "d", "e", "f", "g", "h", "i", "j", "k", "l", "m", "n", "o",
      "p", "q", "r", "s", "t", "u", "v", "w", "x", "y", "z", "{", "|", "}", "~">>

\* The code point of a printable ASCII character (its UTF-8 byte).
Code == [c \in {Ascii[i] : i \in 1..Len(Ascii)} |->
            31 + (CHOOSE i \in 1..Len(Ascii) : Ascii[i] = c)]

Min(a, b) == IF a <= b THEN a ELSE b

IsUpper(c) == c \in DOMAIN Code /\ Code[c] >= 65 /\ Code[c] <= 90
IsAlpha(c) == IsUpper(c) \/ (c \in DOMAIN Code /\ Code[c] >= 97 /\ Code[c] <= 122)
IsSpace(c) == c \in {" ", "\t", "\n"}

\* str.lower()
LowerChar(c) == IF IsUpper(c) THEN Ascii[Code[c] - 31 + 32] ELSE c
Lower(s) == [i \in 1..Len(s) |-> LowerChar(s[i])]

\* str.strip()
RECURSIVE LStrip(_)
LStrip(s) == IF s # <<>> /\ IsSpace(Head(s)) THEN LStrip(Tail(s)) ELSE s
RECURSIVE RStrip(_)
RStrip(s) == IF s # <<>> /\ IsSpace(s[Len(s)]) THEN RStrip(SubSeq(s, 1, Len(s) - 1)) ELSE s
Strip(s) == RStrip(LStrip(s))

\* s[:n]
Take(s, n) == SubSeq(s, 1, Min(n, Len(s)))

\* a or b
Or(a, b) == IF a # <<>> THEN a ELSE b

\* The order of the store on string keys: byte-wise lexicographic.
RECURSIVE LessFrom(_, _, _)
LessFrom(a, b, i) ==
    IF i > Len(a) THEN i <= Len(b)
    ELSE IF i > Len(b) THEN FALSE
    ELSE IF a[i] = b[i] THEN LessFrom(a, b, i + 1)
    ELSE Code[a[i]] < Code[b[i]]
StrLess(a, b) == LessFrom(a, b, 1)
StrLeq(a, b) == a = b \/ StrLess(a, b)

Range(s) == {s[i] : i \in 1..Len(s)}

---------------------------------------------------------------------------
(***************************************************************************)
(* String literals of the source.                                          *)
(***************************************************************************)
STOPWORDS == {
    <<"t", "h", "e">>, <<"a">>, <<"a", "n">>, <<"a", "n", "d">>, <<"o", "r">>, <<"b", "u", "t">>,
    <<"i", "n">>, <<"o", "n">>, <<"a", "t">>, <<"t", "o">>, <<"f", "o", "r">>, <<"o", "f">>,
    <<"w", "i", "t", "h">>, <<"b", "y">>, <<"f", "r", "o", "m">>, <<"u", "p">>,
    <<"a", "b", "o", "u", "t">>, <<"i", "n", "t", "o">>, <<"t", "h", "r", "o", "u", "g", "h">>,
    <<"d", "u", "r", "i", "n", "g">>, <<"i", "s">>, <<"a", "r", "e">>, <<"w", "a", "s">>,
    <<"w", "e", "r", "e">>, <<"b", "e">>, <<"b", "e", "e", "n">>, <<"b", "e", "i", "n", "g">>,
    <<"h", "a", "v", "e">>, <<"h", "a", "s">>, <<"h", "a", "d">>, <<"d", "o">>,
    <<"d", "o", "e", "s">>, <<"d", "i", "d">>, <<"w", "i", "l", "l">>, <<"w", "o", "u", "l", "d">>,
    <<"c", "o", "u", "l", "d">>, <<"s", "h", "o", "u", "l", "d">>, <<"m", "a", "y">>,
    <<"m", "i", "g", "h", "t">>, <<"c", "a", "n">>, <<"t", "h", "i", "s">>, <<"t", "h", "a", "t">>,
    <<"t", "h", "e", "s", "e">>, <<"t", "h", "o", "s", "e">>, <<"w", "e">>, <<"o", "u", "r">>,
    <<"u", "s", "e">>, <<"u", "s", "i", "n", "g">>, <<"b", "a", "s", "e", "d">>,
    <<"a", "p", "p", "r", "o", "a", "c", "h">>, <<"m", "e", "t", "h", "o", "d">>,
    <<"p", "a", "p", "e", "r">>, <<"p", "r", "o", "p", "o", "s", "e">>,
    <<"p", "r", "o", "p", "o", "s", "e", "d">>, <<"s", "h", "o", "w">>}

SentinelDate == <<"0", "0", "0", "0", "-", "0", "0", "-", "0", "0">>   \* "0000-00-00"
MidnightUTC == <<"T", "0", "0", ":", "0", "0", ":", "0", "0", "Z">>    \* "T00:00:00Z"
Hash == <<"#">>
PaperPrefix == <<"P", "A", "P", "E", "R", "#">>
CategoryPrefix == <<"C", "A", "T", "E", "G", "O", "R", "Y", "#">>
AuthorItemPrefix == <<"A", "U", "T", "H", "O", "R", "I", "T", "E", "M", "#">>
AuthorPrefix == <<"A", "U", "T", "H", "O", "R", "#">>
KeywordItemPrefix == <<"K", "E", "Y", "W", "O", "R", "D", "I", "T", "E", "M", "#">>
KeywordPrefix == <<"K", "E", "Y", "W", "O", "R", "D", "#">>
MASTER == <<"M", "A", "S", "T", "E", "R">>
CATEGORY == <<"C", "A", "T", "E", "G", "O", "R", "Y">>
AUTHOR == <<"A", "U", "T", "H", "O", "R">>
KEYWORD == <<"K", "E", "Y", "W", "O", "R", "D">>
RangeSentinel == <<"z", "z", "z", "z", "z", "z", "z">>                 \* "zzzzzzz"

\* None, and the falsy result of dict.get on a missing key.
None == <<>>
Get(d, k) == IF k \in DOMAIN d THEN d[k] ELSE None

---------------------------------------------------------------------------
(***************************************************************************)
(* load_data.py: utilities.                                                *)
(***************************************************************************)
\* The part of s before its first "T" (s.split('T', 1)[0]).
BeforeT(s) ==
    LET ts == {i \in 1..Len(s) : s[i] = "T"}
    IN  IF ts = {} THEN s
        ELSE SubSeq(s, 1, (CHOOSE i \in ts : \A j \in ts : i <= j) - 1)

ymd(date_str_iso) ==
    IF date_str_iso = <<>> THEN SentinelDate
    ELSE LET s == BeforeT(date_str_iso)
         IN  IF Len(s) >= DateLen THEN Take(s, DateLen) ELSE SentinelDate

\* re.findall(r"[a-zA-Z]+", s) from position i on, cur being the run read so far.
RECURSIVE AlphaRuns(_, _, _)
AlphaRuns(s, i, cur) ==
    IF i > Len(s) THEN (IF cur = <<>> THEN <<>> ELSE <<cur>>)
    ELSE IF IsAlpha(s[i]) THEN AlphaRuns(s, i + 1, Append(cur, s[i]))
    ELSE (IF cur = <<>> THEN <<>> ELSE <<cur>>) \o AlphaRuns(s, i + 1, <<>>)

tokenize_words(text) ==
    SelectSeq(AlphaRuns(Lower(text), 1, <<>>),
              LAMBDA t : t \notin STOPWORDS /\ Len(t) > 2)

\* The distinct tokens in first-occurrence order, cut to k, without the sort
\* by count (the fault C14 excludes).
most_common_Unsorted(tokens, k) ==
    LET first == {i \in 1..Len(tokens) : \A j \in 1..(i - 1) : tokens[j] # tokens[i]}
        rank(i) == Cardinality({j \in first : j < i})
    IN  [r \in 1..Min(k, Cardinality(first)) |->
            tokens[CHOOSE i \in first : rank(i) = r - 1]]

\* Counter(tokens).most_common(k): the distinct tokens in first-occurrence
\* order, stably sorted by descending count, cut to k.
most_common(tokens, k) ==
    LET first == {i \in 1..Len(tokens) : \A j \in 1..(i - 1) : tokens[j] # tokens[i]}
        cnt(i) == Cardinality({j \in 1..Len(tokens) : tokens[j] = tokens[i]})
        rank(i) == Cardinality({j \in first : cnt(j) > cnt(i) \/ (cnt(j) = cnt(i) /\ j < i)})
    IN  [r \in 1..Min(k, Cardinality(first)) |->
            tokens[CHOOSE i \in first : rank(i) = r - 1]]

top_keywords_from_abstract(abstract, k) ==
    LET tokens == tokenize_words(abstract)
    IN  IF tokens = <<>> THEN <<>> ELSE most_common(tokens, k)

\* Drops the attributes whose value is "", None, [] or {}.
compact(d) == [k \in {a \in DOMAIN d : d[a] # <<>>} |-> d[k]]

---------------------------------------------------------------------------
(***************************************************************************)
(* load_data.py: item builders.  A paper is the compacted paper_doc, an    *)
(* item a record whose attributes are strings or lists of strings.         *)
(***************************************************************************)
make_master_item(paper, pub_date) ==
    compact(paper @@ [PK |-> PaperPrefix \o paper.arxiv_id,
                      SK |-> MASTER,
                      GSI2PK |-> PaperPrefix \o paper.arxiv_id,
                      GSI2SK |-> Or(pub_date, SentinelDate),
                      item_type |-> MASTER])

\* A Category item that also carries the keys of the paper-id index (the
\* fault C9 excludes).
make_category_item_InPaperIndex(paper, category, pub_date) ==
    compact(paper @@ [PK |-> CategoryPrefix \o category,
                      SK |-> Or(pub_date, SentinelDate) \o Hash \o paper.arxiv_id,
                      GSI2PK |-> PaperPrefix \o paper.arxiv_id,
                      GSI2SK |-> Or(pub_date, SentinelDate),
                      item_type |-> CATEGORY])

make_category_item(paper, category, pub_date) ==
    compact(paper @@ [PK |-> CategoryPrefix \o category,
                      SK |-> Or(pub_date, SentinelDate) \o Hash \o paper.arxiv_id,
                      item_type |-> CATEGORY])

make_author_item(paper, author, pub_date) ==
    IF author = <<>> THEN None
    ELSE LET sk == Or(pub_date, SentinelDate) \o Hash \o paper.arxiv_id
         IN  compact(paper @@ [PK |-> AuthorItemPrefix \o author \o Hash \o paper.arxiv_id,
                               SK |-> sk,
                               GSI1PK |-> AuthorPrefix \o author,
                               GSI1SK |-> sk,
                               item_type |-> AUTHOR])

make_keyword_item(paper, keyword, pub_date) ==
    IF keyword = <<>> THEN None
    ELSE LET kw == Lower(keyword)
             sk == Or(pub_date, SentinelDate) \o Hash \o paper.arxiv_id
         IN  compact(paper @@ [PK |-> KeywordItemPrefix \o kw \o Hash \o paper.arxiv_id,
                               SK |-> sk,
                               GSI3PK |-> KeywordPrefix \o kw,
                               GSI3SK |-> sk,
                               item_type |-> KEYWORD])

---------------------------------------------------------------------------
(***************************************************************************)
(* load_data.py: transform_and_write, the part of the loop body that       *)
(* normalises one raw document p and builds its items.  A raw document     *)
(* has the keys of the input file format: arxiv_id, id, title, authors,    *)
(* abstract, categories, published, date.                                  *)
(***************************************************************************)
\* A filter that lets blank entries through (the fault C1 excludes).
NonBlank_NoFilter(xs) == xs

\* [a for a in xs if isinstance(a, str) and a.strip()]; the input lists hold strings.
NonBlank(xs) == SelectSeq(xs, LAMBDA a : Strip(a) # <<>>)

arxiv_id_of(p) == Strip(Or(Or(p.arxiv_id, p.id), <<>>))
authors_of(p) == NonBlank(p.authors)
categories_of(p) == NonBlank(p.categories)
pub_date_of(p) == ymd(Or(Or(p.published, p.date), <<>>))

\* A loop without the second `continue` (the fault C2 excludes).
Skipped_IdOnly(p) == arxiv_id_of(p) = <<>>

\* The two `continue` of the loop: no id, or no category.
Skipped(p) == arxiv_id_of(p) = <<>> \/ categories_of(p) = <<>>

paper_of(p) ==
    compact([arxiv_id |-> arxiv_id_of(p),
             title |-> Strip(p.title),
             authors |-> authors_of(p),
             abstract |-> Strip(p.abstract),
             categories |-> categories_of(p),
             keywords |-> top_keywords_from_abstract(Strip(p.abstract), TopK),
             published |-> Or(p.published, pub_date_of(p) \o MidnightUTC)])

\* `if it: items.append(it)` over a list of built items.
Truthy(its) == SelectSeq(its, LAMBDA it : it # None)

category_items(p) ==
    Truthy([i \in 1..Len(categories_of(p)) |->
               make_category_item(paper_of(p), categories_of(p)[i], pub_date_of(p))])
author_items(p) ==
    Truthy([i \in 1..Len(authors_of(p)) |->
               make_author_item(paper_of(p), authors_of(p)[i], pub_date_of(p))])
keyword_items(p) ==
    LET kws == Get(paper_of(p), "keywords")
    IN  Truthy([i \in 1..Len(kws) |-> make_keyword_item(paper_of(p), kws[i], pub_date_of(p))])

\* The list `items` handed to batch_write for an accepted document.
items_of(p) ==
    <<make_master_item(paper_of(p), pub_date_of(p))>>
        \o category_items(p) \o author_items(p) \o keyword_items(p)

---------------------------------------------------------------------------
(***************************************************************************)
(* load_data.py: batch_write.  table.batch_writer(overwrite_by_pkeys=      *)
(* ['PK', 'SK']) keeps a buffer: put_item drops a buffered request with    *)
(* the same keys, appends, and flushes once the buffer holds FlushAmount   *)
(* requests; leaving the `with` block flushes until the buffer is empty.   *)
(* A flush sends the first FlushAmount requests as one BatchWriteItem and  *)
(* appends what the store reports as unprocessed to the buffer.            *)
(***************************************************************************)
\* A primary key of the partition key alone (the fault C6 excludes).
SameKeys_PKOnly(a, b) == Get(a, "PK") = Get(b, "PK")

\* overwrite_by_pkeys=['PK', 'SK'], and the primary key of the table.
SameKeys(a, b) == Get(a, "PK") = Get(b, "PK") /\ Get(a, "SK") = Get(b, "SK")

\* put_item on the buffer, before the flush test.
put_item(buf, it) == Append(SelectSeq(buf, LAMBDA b : ~SameKeys(b, it)), it)

\* The `for it in items` loop from the items td on, up to the next flush:
\* the buffer and the items still to put.
RECURSIVE put_items(_, _)
put_items(buf, td) ==
    IF td = <<>> THEN [buffer |-> buf, todo |-> <<>>]
    ELSE LET it == Head(td)
         IN  IF it = None \/ Get(it, "PK") = <<>> \/ Get(it, "SK") = <<>>
             THEN put_items(buf, Tail(td))
             ELSE LET b == put_item(buf, it)
                  IN  IF Len(b) >= FlushAmount
                      THEN [buffer |-> b, todo |-> Tail(td)]
                      ELSE put_items(b, Tail(td))

\* A store that keeps the item it has under a primary key (the fault C4 excludes).
PutItem_IfAbsent(tbl, it) ==
    IF \E x \in tbl : x.PK = it.PK /\ x.SK = it.SK THEN tbl ELSE tbl \cup {it}

\* The store's PutItem: the item replaces the one with the same primary key.
PutItem(tbl, it) == {x \in tbl : ~SameKeys(x, it)} \cup {it}

---------------------------------------------------------------------------
(***************************************************************************)
(* The store's Query, as query_papers.py and api_server.py call it.  An    *)
(* index is a pair of key attributes; an item is in the index when it      *)
(* carries both.  The items of one partition come in sort-key order; the   *)
(* store leaves the order of equal sort keys open, here it is that of the  *)
(* primary key.                                                            *)
(***************************************************************************)
Partition(tbl, pk, sk, v) ==
    {it \in tbl : pk \in DOMAIN it /\ sk \in DOMAIN it /\ it[pk] = v}

Before(x, y, sk) ==
    \/ StrLess(x[sk], y[sk])
    \/ /\ x[sk] = y[sk]
       /\ \/ StrLess(x.PK, y.PK)
          \/ (x.PK = y.PK /\ StrLess(x.SK, y.SK))

\* ScanIndexForward=True, the default.
RECURSIVE Ascending(_, _)
Ascending(S, sk) ==
    IF S = {} THEN <<>>
    ELSE LET m == CHOOSE x \in S : \A y \in S : x = y \/ Before(x, y, sk)
         IN  <<m>> \o Ascending(S \ {m}, sk)

\* A query that leaves the order ascending (the fault C10 excludes).
Reverse_Forward(s) == s

\* ScanIndexForward=False
Reverse(s) == [i \in 1..Len(s) |-> s[Len(s) + 1 - i]]

\* Limit=n on the items a query matched, in order.  The parameter validation
\* of the store client refuses a Limit below 1: the call raises, and its
\* caller gets no list.  The outcome of a limited query is the pair of
\* whether it raised and the list it returned.
Limited(items, n) ==
    IF n < 1 THEN [raised |-> TRUE, Items |-> <<>>]
    ELSE [raised |-> FALSE, Items |-> Take(items, n)]

(***************************************************************************)
(* query_papers.py                                                         *)
(***************************************************************************)
query_recent_in_category(tbl, category, limit) ==
    Limited(Reverse(Ascending(Partition(tbl, "PK", "SK", CategoryPrefix \o category), "SK")),
            limit)

query_papers_by_author(tbl, author_name) ==
    Ascending(Partition(tbl, "GSI1PK", "GSI1SK", AuthorPrefix \o author_name), "GSI1SK")

get_paper_by_id(tbl, arxiv_id) ==
    LET items == Ascending(Partition(tbl, "GSI2PK", "GSI2SK", PaperPrefix \o arxiv_id), "GSI2SK")
    IN  IF items # <<>> THEN items[1] ELSE None

query_papers_in_date_range(tbl, category, start_date, end_date) ==
    LET lo == start_date \o Hash
        hi == end_date \o Hash \o RangeSentinel
    IN  Ascending({it \in Partition(tbl, "PK", "SK", CategoryPrefix \o category) :
                      StrLeq(lo, it.SK) /\ StrLeq(it.SK, hi)}, "SK")

\* A lookup with the keyword as it was given (the fault C16 excludes).
query_papers_by_keyword_AsGiven(tbl, keyword, limit) ==
    Limited(Reverse(Ascending(Partition(tbl, "GSI3PK", "GSI3SK",
                                        KeywordPrefix \o keyword), "GSI3SK")),
            limit)

query_papers_by_keyword(tbl, keyword, limit) ==
    Limited(Reverse(Ascending(Partition(tbl, "GSI3PK", "GSI3SK",
                                        KeywordPrefix \o Lower(keyword)), "GSI3SK")),
            limit)

\* main, command "get": the payload printed, without its timing field.
cli_get(tbl, arxiv_id) ==
    LET item == get_paper_by_id(tbl, arxiv_id)
    IN  [query_type |-> "get_by_id",
         parameters |-> [arxiv_id |-> arxiv_id],
         result |-> item,
         found |-> item # None]

(***************************************************************************)
(* api_server.py: the branches of Handler.do_GET, from the parameters      *)
(* read off the request on.  A response is a status code and a JSON body;  *)
(* limit is the integer int() made of the limit parameter.                 *)
(***************************************************************************)
\* GET /papers/recent?category=..&limit=..
api_recent(tbl, category, limit) ==
    IF category = <<>> THEN [code |-> 400, body |-> [error |-> "category is required"]]
    ELSE LET r == query_recent_in_category(tbl, category, limit)
         IN  IF r.raised THEN [code |-> 500, body |-> [error |-> "ParamValidationError"]]
             ELSE [code |-> 200,
                   body |-> [category |-> category, papers |-> r.Items,
                             count |-> Len(r.Items)]]

\* GET /papers/author/{author}
api_author(tbl, author) ==
    IF author = <<>> THEN [code |-> 400, body |-> [error |-> "author is required"]]
    ELSE LET items == Ascending(Partition(tbl, "GSI1PK", "GSI1SK", AuthorPrefix \o author),
                                "GSI1SK")
         IN  [code |-> 200,
              body |-> [author |-> author, papers |-> items, count |-> Len(items)]]

\* GET /papers/keyword/{kw}?limit=..
api_keyword(tbl, kw, limit) ==
    IF kw = <<>> THEN [code |-> 400, body |-> [error |-> "keyword is required"]]
    ELSE LET r == Limited(Reverse(Ascending(Partition(tbl, "GSI3PK", "GSI3SK",
                                                      KeywordPrefix \o Lower(kw)),
                                            "GSI3SK")),
                          limit)
         IN  IF r.raised THEN [code |-> 500, body |-> [error |-> "ParamValidationError"]]
             ELSE [code |-> 200,
                   body |-> [keyword |-> kw, papers |-> r.Items, count |-> Len(r.Items)]]

\* GET /papers/search?category=..&start=..&end=..
api_search(tbl, category, start, end) ==
    IF category = <<>> \/ start = <<>> \/ end = <<>>
    THEN [code |-> 400, body |-> [error |-> "category, start, end are required"]]
    ELSE LET items == query_papers_in_date_range(tbl, category, start, end)
         IN  [code |-> 200,
              body |-> [category |-> category, start |-> start, end |-> end,
                        papers |-> items, count |-> Len(items)]]

\* GET /papers/{arxiv_id}
api_get_paper(tbl, arxiv_id) ==
    IF arxiv_id = <<>> THEN [code |-> 400, body |-> [error |-> "arxiv_id is required"]]
    ELSE LET items == Ascending(Partition(tbl, "GSI2PK", "GSI2SK", PaperPrefix \o arxiv_id),
                                "GSI2SK")
         IN  IF items = <<>> THEN [code |-> 404, body |-> [error |-> "not found"]]
             ELSE [code |-> 200, body |-> items[1]]

---------------------------------------------------------------------------
(***************************************************************************)
(* The raw documents the input file is drawn from.                         *)
(***************************************************************************)
\* The end-to-end document of the spec: {id: "a1", categories: ["cs.LG"], ...}.
DocA1 ==
    [arxiv_id |-> <<"a", "1">>,
     id |-> <<>>,
     title |-> <<"T">>,
     authors |-> <<<<"A", ".", " ", "S", "m", "i", "t", "h">>>>,
     abstract |-> <<"T", "h", "e", " ", "D", "e", "e", "p">>,
     categories |-> <<<<"c", "s", ".", "L", "G">>>>,
     published |-> <<"2", "0", "2", "3", "-", "0", "1", "-", "1", "5", "T", "0", "0", ":", "0", "0", ":", "0", "0", "Z">>,
     date |-> <<>>]

\* The same id, to trim, with changed content: a category to trim, a blank
\* author, stopwords only, a short date under the "date" key.
DocA1v2 ==
    [arxiv_id |-> <<>>,
     id |-> <<" ", "a", "1", " ">>,
     title |-> <<>>,
     authors |-> <<<<" ">>>>,
     abstract |-> <<"T", "h", "e", " ", "o", "f">>,
     categories |-> <<<<" ", "c", "s", ".", "A", "I">>>>,
     published |-> <<>>,
     date |-> <<"2", "0", "2", "3">>]

\* An arxiv_id that is blank after trimming (the "id" key is then not read).
DocBlankId ==
    [arxiv_id |-> <<" ">>,
     id |-> <<"b", "2">>,
     title |-> <<>>,
     authors |-> <<<<"A", ".", " ", "S", "m", "i", "t", "h">>>>,
     abstract |-> <<>>,
     categories |-> <<<<"c", "s", ".", "L", "G">>>>,
     published |-> <<"2", "0", "2", "3", "-", "0", "5", "-", "0", "1", "T", "0", "0", ":", "0", "0", ":", "0", "0", "Z">>,
     date |-> <<>>]

\* No non-blank category.
DocNoCategory ==
    [arxiv_id |-> <<>>,
     id |-> <<"b", "2">>,
     title |-> <<>>,
     authors |-> <<<<"A", ".", " ", "S", "m", "i", "t", "h">>>>,
     abstract |-> <<>>,
     categories |-> <<<<>>, <<" ">>>>,
     published |-> <<"2", "0", "2", "3", "-", "0", "5", "-", "0", "1", "T", "0", "0", ":", "0", "0", ":", "0", "0", "Z">>,
     date |-> <<>>]

\* An id that sorts after "zzzzzzz", and a repeated author.
DocTilde ==
    [arxiv_id |-> <<>>,
     id |-> <<"~", "z">>,
     title |-> <<>>,
     authors |-> <<<<"A", ".", " ", "S", "m", "i", "t", "h">>, <<"A", ".", " ", "S", "m", "i", "t", "h">>>>,
     abstract |-> <<>>,
     categories |-> <<<<"c", "s", ".", "L", "G">>>>,
     published |-> <<"2", "0", "2", "3", "-", "0", "5", "-", "3", "1", "T", "0", "9", ":", "0", "0", ":", "0", "0", "Z">>,
     date |-> <<>>]

Docs == {DocA1, DocA1v2, DocBlankId, DocNoCategory, DocTilde}

\* The input files: the JSON arrays of at most MaxPapers documents of Docs,
\* each at most once (the same document is loaded again by a second run).
Inputs ==
    UNION {{f \in [1..n -> Docs] : \A i, j \in 1..n : f[i] = f[j] => i = j} :
              n \in 0..MaxPapers}

\* An id that is the name of a route of the HTTP server.
DocRecent ==
    [arxiv_id |-> <<"r", "e", "c", "e", "n", "t">>,
     id |-> <<>>,
     title |-> <<>>,
     authors |-> <<>>,
     abstract |-> <<"D", "e", "e", "p">>,
     categories |-> <<<<"c", "s", ".", "L", "G">>>>,
     published |-> <<"2", "0", "2", "3", "-", "0", "6", "-", "0", "1", "T", "0", "0", ":", "0", "0", ":", "0", "0", "Z">>,
     date |-> <<>>]

\* An id with a slash and a space, and the keyword of DocA1 in other letter cases.
DocSlash ==
    [arxiv_id |-> <<>>,
     id |-> <<"x", "/", "1", " ", "y">>,
     title |-> <<>>,
     authors |-> <<>>,
     abstract |-> <<"D", "E", "E", "P", " ", "n", "e", "t", "s", " ", "d", "e", "e", "p">>,
     categories |-> <<<<"c", "s", ".", "L", "G">>>>,
     published |-> <<"2", "0", "2", "3", "-", "0", "6", "-", "0", "2", "T", "0", "0", ":", "0", "0", ":", "0", "0", "Z">>,
     date |-> <<>>]

\* The documents the queries are tried on, and the files drawn from them.
QueryDocs == {DocA1, DocRecent, DocSlash, DocNoCategory}
QueryInputs ==
    UNION {{f \in [1..n -> QueryDocs] : \A i, j \in 1..n : f[i] = f[j] => i = j} :
              n \in 0..MaxPapers}

AllDocs == Docs \cup QueryDocs

---------------------------------------------------------------------------
(***************************************************************************)
(* State.  The loader runs share the table and read the same input file;   *)
(* they are numbered in the order they start.  A run may start while the   *)
(* earlier one is loading (two concurrent loads), after it has returned    *)
(* (a repeated load) or after it was interrupted (a reload).               *)
(***************************************************************************)
Loaders == {1, 2}

VARIABLES
    table,          \* the items of the DynamoDB table
    papers,         \* the input file: a sequence of raw documents
    pc,             \* per run: idle, loading, writing, flushing, done, crashed
    idx,            \* per run: documents of papers the loop is past
    todo,           \* per run: items of the current document not yet put_item'ed
    buffer,         \* per run: the batch writer's buffer
    inflight,       \* per run: requests of the BatchWriteItem in flight
    total_papers,   \* per run: transform_and_write's total_papers
    total_items,    \* per run: transform_and_write's total_items
    counts,         \* per run: transform_and_write's counts
    overlap,        \* history: "none", "concurrent" once a run started while another
                    \* was loading, "interleaved" once a put of one run landed
                    \* between the puts of a document of the other
    afterFirst,     \* history: <<the table as the first run left it>> once the
                    \* next run has started after the first returned or was
                    \* interrupted, <<>> before
    kw_abstract,    \* keyword extraction: the argument `abstract`
    kw_k,           \* keyword extraction: the argument `k`
    kw_result,      \* keyword extraction: <<the list returned>>, <<>> before the call
    table_status,   \* the store: ABSENT, or the TableStatus DescribeTable reports
    ens_pc,         \* per run: its position in ensure_table
    ens_found,      \* per run: what its describe_table found, "none" before
    ens_seen,       \* per run: the TableStatus of the last response it got
    ens_error,      \* per run: the exception ensure_table let through, or "none"
    creates         \* the store: CreateTable requests it has accepted

loaderVars == <<table, papers, pc, idx, todo, buffer, inflight,
                total_papers, total_items, counts, overlap, afterFirst>>
extractVars == <<kw_abstract, kw_k, kw_result>>
provisionVars == <<table_status, ens_pc, ens_found, ens_seen, ens_error, creates>>
vars == <<loaderVars, extractVars, provisionVars>>

\* The loop body of transform_and_write on each document of Docs, evaluated
\* once: whether it is skipped, and if not the list `items` and the
\* increments of `counts`.
LoopBody ==
    [p \in AllDocs |->
        IF Skipped(p)
        THEN [skipped |-> TRUE, items |-> <<>>, category |-> 0, author |-> 0, keyword |-> 0]
        ELSE [skipped |-> FALSE,
              items |-> items_of(p),
              category |-> Len(category_items(p)),
              author |-> Len(author_items(p)),
              keyword |-> Len(keyword_items(p))]]

ItemsOf == [p \in AllDocs |-> LoopBody[p].items]

ZeroCounts == [master |-> 0, category |-> 0, author |-> 0, keyword |-> 0]

\* No call of top_keywords_from_abstract outside the loader is under way.
NoExtraction ==
    /\ kw_abstract = <<>>
    /\ kw_k = TopK
    /\ kw_result = <<>>

\* main: ensure_table has returned the table before transform_and_write runs.
TableReady ==
    /\ table_status = "ACTIVE"
    /\ ens_pc = [l \in Loaders |-> "returned"]
    /\ ens_found = [l \in Loaders |-> "ACTIVE"]
    /\ ens_seen = [l \in Loaders |-> "ACTIVE"]
    /\ ens_error = [l \in Loaders |-> "none"]
    /\ creates = 0

Init ==
    /\ table = {}
    /\ papers \in Inputs
    /\ pc = [l \in Loaders |-> "idle"]
    /\ idx = [l \in Loaders |-> 0]
    /\ todo = [l \in Loaders |-> <<>>]
    /\ buffer = [l \in Loaders |-> <<>>]
    /\ inflight = [l \in Loaders |-> <<>>]
    /\ total_papers = [l \in Loaders |-> 0]
    /\ total_items = [l \in Loaders |-> 0]
    /\ counts = [l \in Loaders |-> ZeroCounts]
    /\ overlap = "none"
    /\ afterFirst = <<>>
    /\ NoExtraction
    /\ TableReady

Active(l) == pc[l] \in {"loading", "writing", "flushing"}

\* main: a loader process starts and enters transform_and_write.
StartLoad(l) ==
    /\ pc[l] = "idle"
    /\ ens_pc[l] = "returned"
    /\ \A k \in Loaders : k < l => pc[k] # "idle"
    /\ pc' = [pc EXCEPT ![l] = "loading"]
    /\ afterFirst' = IF \E k \in Loaders : pc[k] \in {"done", "crashed"}
                     THEN <<table>> ELSE afterFirst
    /\ UNCHANGED <<table, papers, idx, todo, buffer, inflight,
                   total_papers, total_items, counts, overlap>>
    /\ UNCHANGED <<extractVars, provisionVars>>

\* transform_and_write: a document without id or category is skipped.
SkipPaper(l) ==
    /\ pc[l] = "loading"
    /\ idx[l] < Len(papers)
    /\ LoopBody[papers[idx[l] + 1]].skipped
    /\ idx' = [idx EXCEPT ![l] = @ + 1]
    /\ UNCHANGED <<table, papers, pc, todo, buffer, inflight,
                   total_papers, total_items, counts, overlap, afterFirst>>
    /\ UNCHANGED <<extractVars, provisionVars>>

\* The state of a run whose batch_write works on the buffer b with the items
\* td still to put: batch_write returns once both are empty.
AfterPut(l, b, td) ==
    LET r == put_items(b, td)
        p == papers[idx[l] + 1]
    IN  IF r.buffer = <<>>
        THEN /\ pc' = [pc EXCEPT ![l] = "loading"]
             /\ idx' = [idx EXCEPT ![l] = @ + 1]
             /\ total_papers' = [total_papers EXCEPT ![l] = @ + 1]
             /\ total_items' = [total_items EXCEPT ![l] = @ + Len(ItemsOf[p])]
             /\ buffer' = [buffer EXCEPT ![l] = <<>>]
             /\ todo' = [todo EXCEPT ![l] = <<>>]
        ELSE /\ pc' = [pc EXCEPT ![l] = "writing"]
             /\ buffer' = [buffer EXCEPT ![l] = r.buffer]
             /\ todo' = [todo EXCEPT ![l] = r.todo]
             /\ UNCHANGED <<idx, total_papers, total_items>>

\* transform_and_write: an accepted document is normalised, its items are
\* built and counted, and batch_write puts them into the writer's buffer.
TransformPaper(l) ==
    /\ pc[l] = "loading"
    /\ idx[l] < Len(papers)
    /\ LET p == papers[idx[l] + 1]
       IN  /\ ~LoopBody[p].skipped
           /\ counts' = [counts EXCEPT ![l] =
                  [master |-> @.master + 1,
                   category |-> @.category + LoopBody[p].category,
                   author |-> @.author + LoopBody[p].author,
                   keyword |-> @.keyword + LoopBody[p].keyword]]
           /\ AfterPut(l, <<>>, ItemsOf[p])
    /\ UNCHANGED <<table, papers, inflight, overlap, afterFirst>>
    /\ UNCHANGED <<extractVars, provisionVars>>

\* BatchWriter._flush: the first FlushAmount buffered requests are sent.
FlushSend(l) ==
    /\ pc[l] = "writing"
    /\ inflight' = [inflight EXCEPT ![l] = Take(buffer[l], FlushAmount)]
    /\ buffer' = [buffer EXCEPT ![l] = SubSeq(@, FlushAmount + 1, Len(@))]
    /\ pc' = [pc EXCEPT ![l] = "flushing"]
    /\ UNCHANGED <<table, papers, idx, todo, total_papers, total_items, counts,
                   overlap, afterFirst>>
    /\ UNCHANGED <<extractVars, provisionVars>>

\* The store carries out one put of a request in flight; the puts of a
\* BatchWriteItem are atomic one by one and in no given order.
StoreApply(l) ==
    /\ pc[l] = "flushing"
    /\ \E i \in 1..Len(inflight[l]) :
          /\ table' = PutItem(table, inflight[l][i])
          /\ inflight' = [inflight EXCEPT ![l] =
                 SubSeq(@, 1, i - 1) \o SubSeq(@, i + 1, Len(@))]
    /\ overlap' = IF \E k \in Loaders \ {l} : pc[k] \in {"writing", "flushing"}
                  THEN "interleaved" ELSE overlap
    /\ UNCHANGED <<papers, pc, idx, todo, buffer, total_papers, total_items, counts,
                   afterFirst>>
    /\ UNCHANGED <<extractVars, provisionVars>>

\* A writer that forgets what the store left unprocessed (the fault C5 excludes).
StoreRespond_Drop(l) ==
    /\ pc[l] = "flushing"
    /\ inflight' = [inflight EXCEPT ![l] = <<>>]
    /\ AfterPut(l, buffer[l], todo[l])
    /\ UNCHANGED <<table, papers, counts, overlap, afterFirst>>
    /\ UNCHANGED <<extractVars, provisionVars>>

\* The store answers the BatchWriteItem: what it has not carried out comes
\* back as UnprocessedItems and is appended to the buffer; the writer goes
\* on with the remaining items, or flushes again, or batch_write returns.
StoreRespond(l) ==
    /\ pc[l] = "flushing"
    /\ inflight' = [inflight EXCEPT ![l] = <<>>]
    /\ AfterPut(l, buffer[l] \o inflight[l], todo[l])
    /\ UNCHANGED <<table, papers, counts, overlap, afterFirst>>
    /\ UNCHANGED <<extractVars, provisionVars>>

\* transform_and_write returns (total_papers, total_items, counts).
FinishLoad(l) ==
    /\ pc[l] = "loading"
    /\ idx[l] = Len(papers)
    /\ pc' = [pc EXCEPT ![l] = "done"]
    /\ UNCHANGED <<table, papers, idx, todo, buffer, inflight,
                   total_papers, total_items, counts, overlap, afterFirst>>
    /\ UNCHANGED <<extractVars, provisionVars>>

\* The loader process is interrupted: what it held in memory is lost.
Crash(l) ==
    /\ pc[l] \in {"loading", "writing", "flushing"}
    /\ pc' = [pc EXCEPT ![l] = "crashed"]
    /\ idx' = [idx EXCEPT ![l] = 0]
    /\ todo' = [todo EXCEPT ![l] = <<>>]
    /\ buffer' = [buffer EXCEPT ![l] = <<>>]
    /\ inflight' = [inflight EXCEPT ![l] = <<>>]
    /\ total_papers' = [total_papers EXCEPT ![l] = 0]
    /\ total_items' = [total_items EXCEPT ![l] = 0]
    /\ counts' = [counts EXCEPT ![l] = ZeroCounts]
    /\ UNCHANGED <<table, papers, overlap, afterFirst>>
    /\ UNCHANGED <<extractVars, provisionVars>>

Next ==
    \E l \in Loaders :
        \/ StartLoad(l)
        \/ SkipPaper(l)
        \/ TransformPaper(l)
        \/ FlushSend(l)
        \/ StoreApply(l)
        \/ StoreRespond(l)
        \/ FinishLoad(l)
        \/ Crash(l)

Spec == Init /\ [][Next]_vars

\* The steps a loader process takes by itself, once the store has answered:
\* a running process goes on; the store answers every request, but when and
\* whether it carries out a put is up to the store.
LoaderStep(l) ==
    \/ StartLoad(l)
    \/ SkipPaper(l)
    \/ TransformPaper(l)
    \/ FlushSend(l)
    \/ StoreRespond(l)
    \/ FinishLoad(l)

\* One loader run by itself, which goes on as long as it can.
SingleRun ==
    \/ StartLoad(1)
    \/ SkipPaper(1)
    \/ TransformPaper(1)
    \/ FlushSend(1)
    \/ StoreApply(1)
    \/ StoreRespond(1)
    \/ FinishLoad(1)
    \/ Crash(1)

FairSpec == Init /\ [][SingleRun]_vars /\ WF_vars(LoaderStep(1))

\* One loader run on a file of the documents the queries are tried on.
QueryInit ==
    /\ table = {}
    /\ papers \in QueryInputs
    /\ pc = [l \in Loaders |-> "idle"]
    /\ idx = [l \in Loaders |-> 0]
    /\ todo = [l \in Loaders |-> <<>>]
    /\ buffer = [l \in Loaders |-> <<>>]
    /\ inflight = [l \in Loaders |-> <<>>]
    /\ total_papers = [l \in Loaders |-> 0]
    /\ total_items = [l \in Loaders |-> 0]
    /\ counts = [l \in Loaders |-> ZeroCounts]
    /\ overlap = "none"
    /\ afterFirst = <<>>
    /\ NoExtraction
    /\ TableReady

QuerySpec == QueryInit /\ [][SingleRun]_vars

---------------------------------------------------------------------------
(***************************************************************************)
(* What the claims are stated with.  The notions of the claims are defined *)
(* here from the strings themselves, not from the loader's operators.      *)
(***************************************************************************)
\* The id of a raw document after trimming, and whether a raw document has
\* no id after trimming or no non-blank category.
TrimmedId(p) == Strip(IF p.arxiv_id # <<>> THEN p.arxiv_id ELSE p.id)
Rejectable(p) ==
    \/ TrimmedId(p) = <<>>
    \/ \A i \in 1..Len(p.categories) : Strip(p.categories[i]) = <<>>
RejectableDocs == {p \in Docs : Rejectable(p)}

\* s = d \o "#" \o id for a non-empty d and a non-empty id
IsDateHashId(s, id) ==
    /\ id # <<>>
    /\ Len(s) > Len(id) + 1
    /\ SubSeq(s, Len(s) - Len(id), Len(s)) = Hash \o id

ItemsOfType(tbl, t) == {it \in tbl : Get(it, "item_type") = t}

(***************************************************************************)
(* C1.  In every reachable state every item of the table has a non-empty   *)
(* PK and SK, carries no empty attribute at all, and its keys are the key  *)
(* formulas of its kind over non-empty segments: a non-empty id, a         *)
(* non-empty date before "#", and a non-empty category, author or keyword  *)
(* that is one of those of its payload.                                    *)
(***************************************************************************)
C1_WellKeyed(it) ==
    LET id == Get(it, "arxiv_id")
        t == Get(it, "item_type")
    IN  /\ Get(it, "PK") # <<>> /\ Get(it, "SK") # <<>>
        /\ \A a \in DOMAIN it : it[a] # <<>>
        /\ id # <<>>
        /\ t \in {MASTER, CATEGORY, AUTHOR, KEYWORD}
        /\ t = MASTER =>
              /\ it.PK = PaperPrefix \o id /\ it.SK = MASTER
              /\ Get(it, "GSI2PK") = PaperPrefix \o id
              /\ Get(it, "GSI2SK") # <<>>
        /\ t = CATEGORY =>
              /\ \E c \in Range(Get(it, "categories")) :
                    c # <<>> /\ it.PK = CategoryPrefix \o c
              /\ IsDateHashId(it.SK, id)
        /\ t = AUTHOR =>
              /\ \E a \in Range(Get(it, "authors")) :
                    /\ a # <<>>
                    /\ it.PK = AuthorItemPrefix \o a \o Hash \o id
                    /\ Get(it, "GSI1PK") = AuthorPrefix \o a
              /\ IsDateHashId(it.SK, id)
              /\ Get(it, "GSI1SK") = it.SK
        /\ t = KEYWORD =>
              /\ \E k \in Range(Get(it, "keywords")) :
                    /\ k # <<>>
                    /\ it.PK = KeywordItemPrefix \o k \o Hash \o id
                    /\ Get(it, "GSI3PK") = KeywordPrefix \o k
              /\ IsDateHashId(it.SK, id)
              /\ Get(it, "GSI3SK") = it.SK
        /\ t # AUTHOR => "GSI1PK" \notin DOMAIN it /\ "GSI1SK" \notin DOMAIN it
        /\ t # MASTER => "GSI2PK" \notin DOMAIN it /\ "GSI2SK" \notin DOMAIN it
        /\ t # KEYWORD => "GSI3PK" \notin DOMAIN it /\ "GSI3SK" \notin DOMAIN it

C1_KeysNonEmpty == \A it \in table : C1_WellKeyed(it)

\* A run has returned from a file that holds a document with blank list
\* entries or a blank id, and the table holds items of all four kinds.
C1_Witness ==
    /\ \E l \in Loaders : pc[l] = "done"
    /\ \E i \in 1..Len(papers) :
          \/ TrimmedId(papers[i]) = <<>>
          \/ \E j \in 1..Len(papers[i].authors) : Strip(papers[i].authors[j]) = <<>>
    /\ \A t \in {MASTER, CATEGORY, AUTHOR, KEYWORD} : ItemsOfType(table, t) # {}

(***************************************************************************)
(* C2.  A document with no id after trimming or no non-blank category is   *)
(* skipped: no item of the table is ever one of such a document, a run     *)
(* that has returned has counted and generated the items of the other      *)
(* documents only, and the Master item of each of the other documents of   *)
(* the file is then in the table.                                          *)
(***************************************************************************)
C2_RejectedWriteNothing ==
    /\ \A it \in table :
          \E i \in 1..Len(papers) :
              /\ papers[i] \notin RejectableDocs
              /\ it \in Range(ItemsOf[papers[i]])
    /\ \A l \in Loaders :
          /\ \A it \in Range(buffer[l] \o inflight[l] \o todo[l]) :
                /\ idx[l] < Len(papers)
                /\ papers[idx[l] + 1] \notin RejectableDocs
          /\ pc[l] = "done" =>
                LET kept == {i \in 1..Len(papers) : papers[i] \notin RejectableDocs}
                IN  /\ total_papers[l] = Cardinality(kept)
                    /\ total_items[l] =
                          counts[l].master + counts[l].category
                              + counts[l].author + counts[l].keyword
                    /\ counts[l].master = Cardinality(kept)
                    /\ \A i \in kept :
                          \E it \in table :
                              /\ it.PK = PaperPrefix \o TrimmedId(papers[i])
                              /\ it.SK = MASTER

\* A run has returned from a file in which a rejected document comes before
\* an accepted one.
C2_Witness ==
    /\ \E l \in Loaders : pc[l] = "done" /\ total_papers[l] = 1
    /\ Len(papers) = 2
    /\ papers[1] \in RejectableDocs
    /\ papers[2] \notin RejectableDocs
    /\ table # {}

(***************************************************************************)
(* The table a single uninterrupted load of a file produces, stated on the *)
(* items themselves: of the items of the accepted documents in file order, *)
(* the last one under each primary key.                                    *)
(***************************************************************************)
RECURSIVE Concat(_)
Concat(ss) == IF ss = <<>> THEN <<>> ELSE Head(ss) \o Concat(Tail(ss))

GeneratedOf == [f \in Inputs |-> Concat([i \in 1..Len(f) |-> ItemsOf[f[i]]])]

ExpectedOf ==
    [f \in Inputs |->
        LET g == GeneratedOf[f]
        IN  {g[i] : i \in {i \in 1..Len(g) :
                              \A j \in (i + 1)..Len(g) :
                                  g[j].PK # g[i].PK \/ g[j].SK # g[i].SK}}]

KeysUnique(tbl) == \A x, y \in tbl : (x.PK = y.PK /\ x.SK = y.SK) => x = y

\* The documents of the file a load accepts, as indices.
Accepted(f) == {i \in 1..Len(f) : f[i] \notin RejectableDocs}

(***************************************************************************)
(* C3 (as stated).  Once a single load of a file of one accepted document  *)
(* into the empty table has returned, the table holds exactly 1 Master     *)
(* entry and as many Category, Author and Keyword entries as the lists     *)
(* categories, authors and keywords of the stored payload are long, with   *)
(* at most 10 keywords.  Violated: the payload keeps a repeated author,    *)
(* whose two Author items have one primary key.                            *)
(***************************************************************************)
C3_EntryCounts ==
    (/\ Len(papers) = 1
     /\ papers[1] \notin RejectableDocs
     /\ pc[1] = "done"
     /\ pc[2] = "idle")
    => /\ Cardinality(ItemsOfType(table, MASTER)) = 1
       /\ \A m \in ItemsOfType(table, MASTER) :
             /\ Cardinality(ItemsOfType(table, CATEGORY)) = Len(Get(m, "categories"))
             /\ Cardinality(ItemsOfType(table, AUTHOR)) = Len(Get(m, "authors"))
             /\ Cardinality(ItemsOfType(table, KEYWORD)) = Len(Get(m, "keywords"))
             /\ Len(Get(m, "keywords")) <= TopK

(***************************************************************************)
(* C4.  When a second load of the same file starts after the first has     *)
(* returned and returns too, the table is the one the first load left; no  *)
(* two items of the table ever share a primary key; and then the lookup by *)
(* id of each accepted id finds one item, the Master item carrying the     *)
(* payload of the last document of the file with that id.                  *)
(***************************************************************************)
C4_ReloadIdempotent ==
    /\ KeysUnique(table)
    /\ (afterFirst # <<>> /\ pc[1] = "done" /\ pc[2] = "done") =>
          /\ table = afterFirst[1]
          /\ \A i \in Accepted(papers) :
                LET id == TrimmedId(papers[i])
                    last == CHOOSE j \in Accepted(papers) :
                                /\ TrimmedId(papers[j]) = id
                                /\ \A k \in Accepted(papers) :
                                      TrimmedId(papers[k]) = id => k <= j
                    r == get_paper_by_id(table, id)
                IN  /\ Cardinality(Partition(table, "GSI2PK", "GSI2SK",
                                             PaperPrefix \o id)) = 1
                    /\ r # None
                    /\ r.item_type = MASTER
                    /\ \A a \in DOMAIN paper_of(papers[last]) :
                          Get(r, a) = paper_of(papers[last])[a]
                    /\ DOMAIN r = DOMAIN paper_of(papers[last])
                                      \cup {"PK", "SK", "GSI2PK", "GSI2SK", "item_type"}

\* A file with the same id under two contents was loaded, and then loaded
\* again after the first load returned.
C4_Witness ==
    /\ afterFirst # <<>> /\ afterFirst[1] # {}
    /\ pc[1] = "done" /\ pc[2] = "done"
    /\ total_items[2] > 0
    /\ \E i, j \in Accepted(papers) :
          i < j /\ TrimmedId(papers[i]) = TrimmedId(papers[j])

(***************************************************************************)
(* C5.  When a load was interrupted with some items of a document written  *)
(* and others not, and a load of the same file that started afterwards has *)
(* returned, the table is the one an uninterrupted load of the file        *)
(* produces.                                                               *)
(***************************************************************************)
C5_ReloadAfterCrash ==
    (/\ pc[1] = "crashed"
     /\ afterFirst # <<>>
     /\ pc[2] = "done")
    => table = ExpectedOf[papers]

\* The first load was interrupted between the puts of a document, leaving a
\* table that lacks items of it, and the reload has returned.
C5_Witness ==
    /\ pc[1] = "crashed"
    /\ afterFirst # <<>>
    /\ \E i \in Accepted(papers) :
          /\ Range(ItemsOf[papers[i]]) \cap afterFirst[1] # {}
          /\ Range(ItemsOf[papers[i]]) \ afterFirst[1] # {}
          /\ ItemsOfType(afterFirst[1], MASTER) = {}
    /\ pc[2] = "done"

(***************************************************************************)
(* C6.  Whatever the interleaving of the puts of two runs loading the same *)
(* file, every item of the table is at all times one of the items built    *)
(* from a document, whole, and alone under its primary key; and once both  *)
(* runs have returned the table is the one a single load produces.         *)
(***************************************************************************)
C6_ConcurrentLoads ==
    /\ \A it \in table : \E i \in 1..Len(papers) : it \in Range(ItemsOf[papers[i]])
    /\ \A x, y \in table : x # y => (x.PK # y.PK \/ x.SK # y.SK)
    /\ (pc[1] = "done" /\ pc[2] = "done") => table = ExpectedOf[papers]

\* Both runs have returned after a put of one landed while the other was
\* writing a document, with a file holding the same id twice.
C6_Witness ==
    /\ overlap = "interleaved"
    /\ pc[1] = "done" /\ pc[2] = "done"
    /\ total_items[1] > 0 /\ total_items[2] > 0
    /\ Cardinality(table) < Len(GeneratedOf[papers])

(***************************************************************************)
(* C7 (as stated).  The batch writer always finishes: a run that is        *)
(* writing the items of a document eventually leaves batch_write, with     *)
(* every item written or with a failure after a capped number of retries.  *)
(* Violated: the writer has no retry cap and no failure outcome; while the *)
(* store keeps answering with every request unprocessed, the writer sends  *)
(* the same requests again for ever.                                       *)
(***************************************************************************)
C7_WriterFinishes ==
    (pc[1] = "writing") ~> (pc[1] \in {"loading", "done", "crashed"})

(***************************************************************************)
(* The parameters the queries are tried with: the categories, ids and      *)
(* dates of the documents, and the limits up to MaxLimit.                  *)
(***************************************************************************)
QueryCategories == UNION {Range(p.categories) : p \in Docs} \ {<<>>}
QueryIds == {TrimmedId(p) : p \in Docs} \ {<<>>}
QueryDates == ({Take(p.published, DateLen) : p \in Docs} \ {<<>>}) \cup {SentinelDate}

\* The Category entries of a category, and the publishedDate of an entry.
CategoryEntries(tbl, category) ==
    {it \in ItemsOfType(tbl, CATEGORY) : it.PK = CategoryPrefix \o category}
PublishedDate(it) == Take(it.SK, DateLen)

(***************************************************************************)
(* C8 (as stated).  For every category and dates start <= end, the date    *)
(* range query returns exactly the Category entries of the category whose  *)
(* publishedDate d has start <= d <= end.  Violated: the entry of an id    *)
(* that sorts after "zzzzzzz" and is dated end is missed.                  *)
(***************************************************************************)
C8_DateRangeExact ==
    \A category \in QueryCategories :
        \A start, end \in QueryDates :
            StrLeq(start, end) =>
                /\ Range(query_papers_in_date_range(table, category, start, end))
                       = {it \in CategoryEntries(table, category) :
                             /\ StrLeq(start, PublishedDate(it))
                             /\ StrLeq(PublishedDate(it), end)}
                /\ api_search(table, category, start, end).body.papers
                       = query_papers_in_date_range(table, category, start, end)

(***************************************************************************)
(* C9.  In every reachable state, for every id: only Master items are in   *)
(* the paper-id index, at most one of them under PAPER#id, the one of that *)
(* id; the lookup returns it, HTTP answers 200 with it and the CLI prints  *)
(* found true with it; when there is none the lookup returns None, HTTP    *)
(* answers 404 {"error": "not found"} and the CLI prints found false with  *)
(* a null result; and once a load of a file with an accepted document of   *)
(* that id has returned, there is one.                                     *)
(***************************************************************************)
C9_PointLookup ==
    /\ \A it \in table : "GSI2PK" \in DOMAIN it => it.item_type = MASTER
    /\ \A id \in QueryIds :
          LET masters == {it \in ItemsOfType(table, MASTER) : it.arxiv_id = id}
              r == get_paper_by_id(table, id)
              h == api_get_paper(table, id)
              c == cli_get(table, id)
          IN  /\ Cardinality(masters) <= 1
              /\ Partition(table, "GSI2PK", "GSI2SK", PaperPrefix \o id) = masters
              /\ masters = {} =>
                    /\ r = None
                    /\ h.code = 404 /\ h.body = [error |-> "not found"]
                    /\ c.found = FALSE /\ c.result = None
              /\ \A m \in masters :
                    /\ r = m
                    /\ h.code = 200 /\ h.body = m
                    /\ c.found = TRUE /\ c.result = m
              /\ ((\E l \in Loaders : pc[l] = "done")
                    /\ \E i \in Accepted(papers) : TrimmedId(papers[i]) = id)
                 => masters # {}

\* A load has returned; one of the ids is found and another is not.
C9_Witness ==
    /\ \E l \in Loaders : pc[l] = "done"
    /\ \E id \in QueryIds :
          /\ api_get_paper(table, id).code = 200
          /\ cli_get(table, id).found
          /\ Cardinality({it \in table : it.arxiv_id = id}) > 1
    /\ \E id \in QueryIds :
          /\ api_get_paper(table, id).code = 404
          /\ ~cli_get(table, id).found

(***************************************************************************)
(* C10 (as stated).  For every category and every limit, the recent query  *)
(* returns min(limit, n) entries of the n of the category partition.       *)
(* Violated at limit 0: the query raises and returns nothing, HTTP 500.    *)
(***************************************************************************)
C10_Recent(category, limit) ==
    LET part == {it \in table : it.PK = CategoryPrefix \o category}
        entries == CategoryEntries(table, category)
        r == query_recent_in_category(table, category, limit)
        h == api_recent(table, category, limit)
        n == Cardinality(part)
        rest == part \ Range(r.Items)
    IN  /\ ~r.raised
        /\ Len(r.Items) = Min(limit, n)
        /\ Len(r.Items) <= limit
        /\ \A i \in 1..Len(r.Items) :
              /\ r.Items[i] \in entries
              /\ \A j \in (i + 1)..Len(r.Items) : StrLess(r.Items[j].SK, r.Items[i].SK)
              /\ StrLeq(PublishedDate(r.Items[i]), PublishedDate(r.Items[1]))
              /\ \A x \in rest : StrLess(x.SK, r.Items[i].SK)
        /\ h.code = 200 /\ h.body.papers = r.Items /\ h.body.count = Len(r.Items)

C10_RecentAnyLimit ==
    \A category \in QueryCategories : \A limit \in 0..MaxLimit : C10_Recent(category, limit)

(***************************************************************************)
(* C10 (amended).  For every category and every limit of at least 1, the   *)
(* recent query returns only Category entries of the category, at most     *)
(* limit of them, in descending sort-key order, and they are the           *)
(* min(limit, n) entries with the greatest sort keys of the n entries of   *)
(* the partition; with a limit below 1 the query raises a validation error *)
(* and HTTP answers 500.                                                   *)
(***************************************************************************)
C10_RecentPositiveLimit ==
    \A category \in QueryCategories :
        /\ \A limit \in 1..MaxLimit : C10_Recent(category, limit)
        /\ \A limit \in {-1, 0} :
              /\ query_recent_in_category(table, category, limit).raised
              /\ api_recent(table, category, limit).code = 500

\* A category with two entries of different dates, asked with a limit below
\* and a limit above their number.
C10_Witness ==
    \E category \in QueryCategories :
        LET part == CategoryEntries(table, category)
        IN  /\ Cardinality(part) = 2
            /\ \E x, y \in part : StrLess(PublishedDate(x), PublishedDate(y))
            /\ Len(query_recent_in_category(table, category, 1).Items) = 1
            /\ Len(query_recent_in_category(table, category, MaxLimit).Items) = 2

(***************************************************************************)
(* C15 (as stated).  The authors and the categories of every stored        *)
(* payload hold no blank string, no string with leading or trailing        *)
(* whitespace and no value twice, and the Author and Category keys of the  *)
(* entries are built from those trimmed values.  Violated: the loader      *)
(* drops blank entries only; it stores " cs.AI" untrimmed and keeps a      *)
(* repeated author.                                                        *)
(***************************************************************************)
C15_Clean(xs) ==
    /\ \A i \in 1..Len(xs) : xs[i] # <<>> /\ Strip(xs[i]) = xs[i]
    /\ \A i, j \in 1..Len(xs) : xs[i] = xs[j] => i = j

C15_NormalizedLists ==
    \A it \in table :
        /\ C15_Clean(Get(it, "authors"))
        /\ C15_Clean(Get(it, "categories"))
        /\ it.item_type = CATEGORY =>
              \E c \in Range(Get(it, "categories")) :
                  Strip(c) = c /\ it.PK = CategoryPrefix \o c
        /\ it.item_type = AUTHOR =>
              \E a \in Range(Get(it, "authors")) :
                  Strip(a) = a /\ it.GSI1PK = AuthorPrefix \o a

(***************************************************************************)
(* C17 (as stated).  Once the loads have returned, every entry of the      *)
(* table is an entry of the last version loaded of its document id, and    *)
(* the author query returns no document id twice.  Violated: a re-load     *)
(* under changed content overwrites the Master item only; the Category,    *)
(* Author and Keyword items of the earlier version have other keys and     *)
(* stay, with the earlier payload.                                         *)
(***************************************************************************)
LatestVersion(f, id) ==
    f[CHOOSE j \in Accepted(f) :
          /\ TrimmedId(f[j]) = id
          /\ \A k \in Accepted(f) : TrimmedId(f[k]) = id => k <= j]

C17_NoStaleEntries ==
    (pc[1] = "done" /\ pc[2] \in {"idle", "done"}) =>
        /\ \A it \in table : it \in Range(ItemsOf[LatestVersion(papers, it.arxiv_id)])
        /\ \A it \in table :
              "authors" \in DOMAIN it =>
                  \A a \in Range(it.authors) :
                      LET r == query_papers_by_author(table, a)
                      IN  \A i, j \in 1..Len(r) : r[i].arxiv_id = r[j].arxiv_id => i = j


---------------------------------------------------------------------------
(***************************************************************************)
(* C16: the keyword lookup.                                                *)
(***************************************************************************)
\* The keywords asked for: two stored keywords in three letter cases, and one
\* no document has.
QueryKeywords ==
    {<<"d", "e", "e", "p">>, <<"D", "e", "e", "p">>, <<"D", "E", "E", "P">>,
     <<"n", "e", "t", "s">>, <<"N", "e", "t", "s">>, <<"N", "E", "T", "S">>,
     <<"x", "y", "z">>}

KeywordPartition(tbl, kw) == Partition(tbl, "GSI3PK", "GSI3SK", KeywordPrefix \o Lower(kw))

---------------------------------------------------------------------------
(***************************************************************************)
(* The request layers: Handler.do_GET of api_server.py from the request    *)
(* path and the parsed query string on, and main of query_papers.py from   *)
(* the command line on.  Each outcome carries `queries`, the number of     *)
(* queries the call sent to the store.                                     *)
(***************************************************************************)
HexDigits == <<"0", "1", "2", "3", "4", "5", "6", "7", "8", "9",
               "A", "B", "C", "D", "E", "F">>

IsDigit(c) == c \in DOMAIN Code /\ Code[c] >= 48 /\ Code[c] <= 57

\* The value of a hexadecimal digit, -1 for any other character.
HexValue(c) ==
    IF IsDigit(c) THEN Code[c] - 48
    ELSE IF c \in DOMAIN Code /\ Code[c] >= 65 /\ Code[c] <= 70 THEN Code[c] - 55
    ELSE IF c \in DOMAIN Code /\ Code[c] >= 97 /\ Code[c] <= 102 THEN Code[c] - 87
    ELSE -1

\* urllib.parse.quote(s, safe=''): letters, digits and "_.-~" stay, every
\* other character becomes % and the two hexadecimal digits of its byte.
QuoteChar(c) ==
    IF IsAlpha(c) \/ IsDigit(c) \/ c \in {"_", ".", "-", "~"} THEN <<c>>
    ELSE <<"%", HexDigits[(Code[c] \div 16) + 1], HexDigits[(Code[c] % 16) + 1]>>

RECURSIVE quote(_)
quote(s) == IF s = <<>> THEN <<>> ELSE QuoteChar(Head(s)) \o quote(Tail(s))

\* urllib.parse.unquote: % and two hexadecimal digits become the character
\* of that byte, anything else stays.
RECURSIVE unquote(_)
unquote(s) ==
    IF s = <<>> THEN <<>>
    ELSE IF /\ Head(s) = "%"
            /\ Len(s) >= 3
            /\ HexValue(s[2]) >= 0
            /\ HexValue(s[3]) >= 0
            /\ 16 * HexValue(s[2]) + HexValue(s[3]) >= 32
            /\ 16 * HexValue(s[2]) + HexValue(s[3]) <= 126
         THEN <<Ascii[16 * HexValue(s[2]) + HexValue(s[3]) - 31]>> \o unquote(SubSeq(s, 4, Len(s)))
         ELSE <<Head(s)>> \o unquote(Tail(s))

\* str.startswith, str.count of one character, and s.split(prefix, 1)[1] of
\* a string that starts with the prefix.
StartsWith(s, prefix) == Len(s) >= Len(prefix) /\ SubSeq(s, 1, Len(prefix)) = prefix
Count(s, c) == Cardinality({i \in 1..Len(s) : s[i] = c})
AfterPrefix(s, prefix) == SubSeq(s, Len(prefix) + 1, Len(s))

\* The digits of an integer literal: digits, single underscores between them.
IsDigits(s) ==
    /\ s # <<>>
    /\ IsDigit(s[1])
    /\ IsDigit(s[Len(s)])
    /\ \A i \in 1..Len(s) : IsDigit(s[i]) \/ s[i] = "_"
    /\ \A i \in 1..(Len(s) - 1) : ~(s[i] = "_" /\ s[i + 1] = "_")

RECURSIVE DigitsValue(_, _)
DigitsValue(s, acc) ==
    IF s = <<>> THEN acc
    ELSE IF Head(s) = "_" THEN DigitsValue(Tail(s), acc)
    ELSE DigitsValue(Tail(s), 10 * acc + Code[Head(s)] - 48)

\* int(s) of a string: surrounding whitespace and one sign are allowed;
\* anything else raises ValueError.
int(s) ==
    LET t == Strip(s)
        signed == t # <<>> /\ Head(t) \in {"+", "-"}
        d == IF signed THEN Tail(t) ELSE t
    IN  IF ~IsDigits(d) THEN [raised |-> TRUE, value |-> 0]
        ELSE [raised |-> FALSE,
              value |-> IF signed /\ Head(t) = "-" THEN 0 - DigitsValue(d, 0)
                        ELSE DigitsValue(d, 0)]

\* The limit when the request names none.
DefaultLimit == 20

\* int(q.get("limit", [20])[0]): parse_qs leaves a blank limit out.
limit_of(raw) == IF raw = <<>> THEN [raised |-> FALSE, value |-> DefaultLimit] ELSE int(raw)

HealthPath == <<"/", "h", "e", "a", "l", "t", "h">>
RecentPath == <<"/", "p", "a", "p", "e", "r", "s", "/", "r", "e", "c", "e", "n", "t">>
AuthorRoute == <<"/", "p", "a", "p", "e", "r", "s", "/", "a", "u", "t", "h", "o", "r", "/">>
KeywordRoute == <<"/", "p", "a", "p", "e", "r", "s", "/", "k", "e", "y", "w", "o", "r", "d", "/">>
SearchPath == <<"/", "p", "a", "p", "e", "r", "s", "/", "s", "e", "a", "r", "c", "h">>
PapersRoute == <<"/", "p", "a", "p", "e", "r", "s", "/">>

\* A response and the queries sent to the store for it: the branches that
\* answer 400 return before the query, and a Limit the store client refuses
\* never leaves the client.
Answered(resp, sent) == [code |-> resp.code, body |-> resp.body, queries |-> sent]

\* Handler.do_GET: the route is chosen by the undecoded path, in this order.
\* q holds the query parameters parse_qs found, <<>> for one that is absent
\* or blank.
do_GET(tbl, path, q) ==
    IF path = HealthPath
    THEN [code |-> 200, body |-> [status |-> "ok"], queries |-> 0]
    ELSE IF path = RecentPath
    THEN IF q.category = <<>> THEN Answered(api_recent(tbl, <<>>, 0), 0)
         ELSE IF limit_of(q.limit).raised
         THEN [code |-> 400, body |-> [error |-> "limit must be integer"], queries |-> 0]
         ELSE LET resp == api_recent(tbl, q.category, limit_of(q.limit).value)
              IN  Answered(resp, IF resp.code = 200 THEN 1 ELSE 0)
    ELSE IF StartsWith(path, AuthorRoute)
    THEN LET resp == api_author(tbl, unquote(AfterPrefix(path, AuthorRoute)))
         IN  Answered(resp, IF resp.code = 200 THEN 1 ELSE 0)
    ELSE IF StartsWith(path, KeywordRoute)
    THEN LET kw == unquote(AfterPrefix(path, KeywordRoute))
         IN  IF kw = <<>> THEN Answered(api_keyword(tbl, <<>>, 0), 0)
             ELSE IF limit_of(q.limit).raised
             THEN [code |-> 400, body |-> [error |-> "limit must be integer"], queries |-> 0]
             ELSE LET resp == api_keyword(tbl, kw, limit_of(q.limit).value)
                  IN  Answered(resp, IF resp.code = 200 THEN 1 ELSE 0)
    ELSE IF path = SearchPath
    THEN LET resp == api_search(tbl, q.category, q.start, q.end)
         IN  Answered(resp, IF resp.code = 200 THEN 1 ELSE 0)
    ELSE IF StartsWith(path, PapersRoute) /\ Count(path, "/") = 2
    THEN LET resp == api_get_paper(tbl, unquote(AfterPrefix(path, PapersRoute)))
         IN  Answered(resp, IF resp.code = 400 THEN 0 ELSE 1)
    ELSE [code |-> 404, body |-> [error |-> "Not Found"], queries |-> 0]

LimitFlag == <<"-", "-", "l", "i", "m", "i", "t">>

\* main.get_flag: the argument after the first occurrence of the flag.
HasFlag(args, name) ==
    \E i \in 1..(Len(args) - 1) :
        args[i] = name /\ \A j \in 1..(i - 1) : args[j] # name

get_flag(args, name) ==
    args[1 + CHOOSE i \in 1..(Len(args) - 1) :
                 args[i] = name /\ \A j \in 1..(i - 1) : args[j] # name]

\* int(get_flag('--limit', 20))
cli_limit(args) ==
    IF HasFlag(args, LimitFlag) THEN int(get_flag(args, LimitFlag))
    ELSE [raised |-> FALSE, value |-> DefaultLimit]

\* The fields the command "recent" prints of an item.
Projected(it) ==
    [arxiv_id |-> Get(it, "arxiv_id"), title |-> Get(it, "title"),
     authors |-> Get(it, "authors"), published |-> Get(it, "published"),
     categories |-> Get(it, "categories")]

CliError(msg) == [payload |-> [error |-> msg], queries |-> 0]

\* main of query_papers.py: the payload printed, without its timing field.
\* The only check of the arguments is their number.
main(tbl, cmd, args) ==
    IF cmd = "recent"
    THEN IF Len(args) < 1 THEN CliError("recent <category> [--limit N] [--table T]")
         ELSE IF cli_limit(args).raised THEN CliError("invalid literal for int()")
         ELSE LET r == query_recent_in_category(tbl, args[1], cli_limit(args).value)
              IN  IF r.raised THEN CliError("ParamValidationError")
                  ELSE [payload |-> [query_type |-> "recent_in_category",
                                     parameters |-> [category |-> args[1],
                                                     limit |-> cli_limit(args).value],
                                     results |-> [i \in 1..Len(r.Items) |-> Projected(r.Items[i])],
                                     count |-> Len(r.Items)],
                        queries |-> 1]
    ELSE IF cmd = "author"
    THEN IF Len(args) < 1 THEN CliError("author <author_name> [--table T]")
         ELSE LET items == query_papers_by_author(tbl, args[1])
              IN  [payload |-> [query_type |-> "papers_by_author",
                                parameters |-> [author |-> args[1]],
                                results |-> items, count |-> Len(items)],
                   queries |-> 1]
    ELSE IF cmd = "get"
    THEN IF Len(args) < 1 THEN CliError("get <arxiv_id> [--table T]")
         ELSE [payload |-> cli_get(tbl, args[1]), queries |-> 1]
    ELSE IF cmd = "daterange"
    THEN IF Len(args) < 3
         THEN CliError("daterange <category> <start_date> <end_date> [--table T]")
         ELSE LET items == query_papers_in_date_range(tbl, args[1], args[2], args[3])
              IN  [payload |-> [query_type |-> "date_range_in_category",
                                parameters |-> [category |-> args[1], start_date |-> args[2],
                                                end_date |-> args[3]],
                                results |-> items, count |-> Len(items)],
                   queries |-> 1]
    ELSE IF cmd = "keyword"
    THEN IF Len(args) < 1 THEN CliError("keyword <keyword> [--limit N] [--table T]")
         ELSE IF cli_limit(args).raised THEN CliError("invalid literal for int()")
         ELSE LET r == query_papers_by_keyword(tbl, args[1], cli_limit(args).value)
              IN  IF r.raised THEN CliError("ParamValidationError")
                  ELSE [payload |-> [query_type |-> "papers_by_keyword",
                                     parameters |-> [keyword |-> args[1],
                                                     limit |-> cli_limit(args).value],
                                     results |-> r.Items, count |-> Len(r.Items)],
                        queries |-> 1]
    ELSE CliError("Unknown command")

---------------------------------------------------------------------------
(***************************************************************************)
(* C11: validation of the parameters before the query.                     *)
(***************************************************************************)
\* HTTP requests of the five routes with a required parameter missing or
\* blank, or with the limit "abc".
C11_BadRequests ==
    {[path |-> RecentPath,
      q |-> [category |-> <<>>, start |-> <<>>, end |-> <<>>, limit |-> <<>>]],
     [path |-> RecentPath,
      q |-> [category |-> <<>>, start |-> <<>>, end |-> <<>>, limit |-> <<"2">>]],
     [path |-> RecentPath,
      q |-> [category |-> <<"c", "s", ".", "L", "G">>, start |-> <<>>, end |-> <<>>, limit |-> <<"a", "b", "c">>]],
     [path |-> AuthorRoute,
      q |-> [category |-> <<>>, start |-> <<>>, end |-> <<>>, limit |-> <<>>]],
     [path |-> KeywordRoute,
      q |-> [category |-> <<>>, start |-> <<>>, end |-> <<>>, limit |-> <<>>]],
     [path |-> KeywordRoute,
      q |-> [category |-> <<>>, start |-> <<>>, end |-> <<>>, limit |-> <<"2">>]],
     [path |-> KeywordRoute \o <<"d", "e", "e", "p">>,
      q |-> [category |-> <<>>, start |-> <<>>, end |-> <<>>, limit |-> <<"a", "b", "c">>]],
     [path |-> SearchPath,
      q |-> [category |-> <<>>, start |-> <<"2", "0", "2", "3", "-", "0", "1", "-", "0", "1">>, end |-> <<"2", "0", "2", "3", "-", "1", "2", "-", "3", "1">>, limit |-> <<>>]],
     [path |-> SearchPath,
      q |-> [category |-> <<"c", "s", ".", "L", "G">>, start |-> <<>>, end |-> <<"2", "0", "2", "3", "-", "1", "2", "-", "3", "1">>, limit |-> <<>>]],
     [path |-> SearchPath,
      q |-> [category |-> <<"c", "s", ".", "L", "G">>, start |-> <<"2", "0", "2", "3", "-", "0", "1", "-", "0", "1">>, end |-> <<>>, limit |-> <<>>]],
     [path |-> SearchPath,
      q |-> [category |-> <<>>, start |-> <<>>, end |-> <<>>, limit |-> <<>>]],
     [path |-> PapersRoute,
      q |-> [category |-> <<>>, start |-> <<>>, end |-> <<>>, limit |-> <<>>]]}

\* Command lines of the five commands with a required argument missing or
\* empty, or with --limit abc.
C11_BadCommands ==
    {[cmd |-> "recent", args |-> <<>>],
     [cmd |-> "recent", args |-> <<<<>>>>],
     [cmd |-> "recent", args |-> <<<<"c", "s", ".", "L", "G">>, LimitFlag, <<"a", "b", "c">>>>],
     [cmd |-> "author", args |-> <<>>],
     [cmd |-> "author", args |-> <<<<>>>>],
     [cmd |-> "get", args |-> <<>>],
     [cmd |-> "get", args |-> <<<<>>>>],
     [cmd |-> "daterange", args |-> <<>>],
     [cmd |-> "daterange", args |-> <<<<"c", "s", ".", "L", "G">>, <<"2", "0", "2", "3", "-", "0", "1", "-", "0", "1">>>>],
     [cmd |-> "daterange", args |-> <<<<>>, <<"2", "0", "2", "3", "-", "0", "1", "-", "0", "1">>, <<"2", "0", "2", "3", "-", "1", "2", "-", "3", "1">>>>],
     [cmd |-> "daterange", args |-> <<<<"c", "s", ".", "L", "G">>, <<>>, <<"2", "0", "2", "3", "-", "1", "2", "-", "3", "1">>>>],
     [cmd |-> "daterange", args |-> <<<<"c", "s", ".", "L", "G">>, <<"2", "0", "2", "3", "-", "0", "1", "-", "0", "1">>, <<>>>>],
     [cmd |-> "keyword", args |-> <<>>],
     [cmd |-> "keyword", args |-> <<<<>>>>],
     [cmd |-> "keyword", args |-> <<<<"d", "e", "e", "p">>, LimitFlag, <<"a", "b", "c">>>>]}

HttpValidated ==
    \A r \in C11_BadRequests :
        LET resp == do_GET(table, r.path, r.q)
        IN  resp.code = 400 /\ resp.queries = 0

CliValidated ==
    \A c \in C11_BadCommands :
        LET out == main(table, c.cmd, c.args)
        IN  "error" \in DOMAIN out.payload /\ out.queries = 0

\* C11: every request of a route and every command line with a required
\* parameter missing or empty, or with a limit that is no integer, is
\* answered by a validation error (HTTP 400, a CLI error object), and no
\* query is sent to the store for it.
C11_ValidatedBeforeQuery == HttpValidated /\ CliValidated

---------------------------------------------------------------------------
(***************************************************************************)
(* C19: the point lookup over HTTP.                                        *)
(***************************************************************************)
\* A request without query parameters.
NoParams == [category |-> <<>>, start |-> <<>>, end |-> <<>>, limit |-> <<>>]

\* C19: for every id stored in the table, GET /papers/{percent-encoded id}
\* is answered 200 with the Master entry of that id.
C19_StoredIdRouted ==
    \A m \in ItemsOfType(table, MASTER) :
        LET resp == do_GET(table, PapersRoute \o quote(m.arxiv_id), NoParams)
        IN  /\ resp.code = 200
            /\ resp.body = m

---------------------------------------------------------------------------
(***************************************************************************)
(* Keyword extraction by itself: top_keywords_from_abstract is called on   *)
(* a text of up to MaxWords words and a k, with the inputs the call is     *)
(* made on drawn by the initial state.                                     *)
(***************************************************************************)
MaxWords == 3
MaxK == 3

\* The words of the texts: a stopword, one word in two letter cases, a word
\* followed by punctuation, a word of two letters, and an inflected form of
\* a stopword.
Words == {<<"t", "h", "e">>, <<"D", "e", "e", "p">>, <<"d", "e", "e", "p">>, <<"n", "e", "t", "s", ",">>, <<"a", "b">>, <<"s", "h", "o", "w", "s">>}

RECURSIVE JoinWords(_)
JoinWords(ws) ==
    IF ws = <<>> THEN <<>>
    ELSE IF Len(ws) = 1 THEN ws[1]
    ELSE ws[1] \o <<" ">> \o JoinWords(Tail(ws))

\* The text of the keyword-extraction example.
ExampleText ==
    JoinWords(<<<<"t", "h", "e">>,
                <<"m", "e", "t", "h", "o", "d">>,
                <<"s", "h", "o", "w", "s">>,
                <<"s", "i", "g", "n", "i", "f", "i", "c", "a", "n", "t">>,
                <<"s", "i", "g", "n", "i", "f", "i", "c", "a", "n", "t">>,
                <<"i", "m", "p", "r", "o", "v", "e", "m", "e", "n", "t">>,
                <<"i", "m", "p", "r", "o", "v", "e", "m", "e", "n", "t">>,
                <<"i", "m", "p", "r", "o", "v", "e", "m", "e", "n", "t">>>>)

Texts ==
    {JoinWords(ws) : ws \in UNION {[1..n -> Words] : n \in 0..MaxWords}} \cup {ExampleText}

Ks == (0..MaxK) \cup {TopK}

ExtractInit ==
    /\ kw_abstract \in Texts
    /\ kw_k \in Ks
    /\ kw_result = <<>>
    /\ table = {}
    /\ papers = <<>>
    /\ pc = [l \in Loaders |-> "idle"]
    /\ idx = [l \in Loaders |-> 0]
    /\ todo = [l \in Loaders |-> <<>>]
    /\ buffer = [l \in Loaders |-> <<>>]
    /\ inflight = [l \in Loaders |-> <<>>]
    /\ total_papers = [l \in Loaders |-> 0]
    /\ total_items = [l \in Loaders |-> 0]
    /\ counts = [l \in Loaders |-> ZeroCounts]
    /\ overlap = "none"
    /\ afterFirst = <<>>
    /\ TableReady

\* The call top_keywords_from_abstract(abstract, k) returns.
Extract ==
    /\ kw_result = <<>>
    /\ kw_result' = <<top_keywords_from_abstract(kw_abstract, kw_k)>>
    /\ UNCHANGED <<kw_abstract, kw_k, loaderVars, provisionVars>>

ExtractSpec == ExtractInit /\ [][Extract]_vars

---------------------------------------------------------------------------
(***************************************************************************)
(* C13, C14: the keywords extracted.                                       *)
(***************************************************************************)
Improvement == <<"i", "m", "p", "r", "o", "v", "e", "m", "e", "n", "t">>
Significant == <<"s", "i", "g", "n", "i", "f", "i", "c", "a", "n", "t">>
Shows == <<"s", "h", "o", "w", "s">>

\* C13: no keyword returned is a stopword or has two letters or fewer, and
\* for the example text with k = 10 the keywords returned are among
\* "improvement" and "significant", "shows" is not one of them, and
\* "improvement" comes before "significant".
C13_StopwordsExcluded ==
    kw_result # <<>> =>
        LET res == kw_result[1]
        IN  /\ \A i \in 1..Len(res) : res[i] \notin STOPWORDS /\ Len(res[i]) > 2
            /\ (kw_abstract = ExampleText /\ kw_k = TopK) =>
                   /\ Shows \notin Range(res)
                   /\ Range(res) \subseteq {Improvement, Significant}
                   /\ Len(res) <= 2
                   /\ \A i, j \in 1..Len(res) :
                          (res[i] = Improvement /\ res[j] = Significant) => i < j

\* The tokens of a text that survive, read off the text, and their
\* frequencies and first occurrences.
Surviving(text) ==
    SelectSeq(AlphaRuns(Lower(text), 1, <<>>),
              LAMBDA t : t \notin STOPWORDS /\ Len(t) > 2)
Frequency(text, w) ==
    Cardinality({j \in 1..Len(Surviving(text)) : Surviving(text)[j] = w})
FirstOccurrence(text, w) ==
    CHOOSE j \in 1..Len(Surviving(text)) :
        Surviving(text)[j] = w /\ \A i \in 1..(j - 1) : Surviving(text)[i] # w

\* C14: the list returned for a text and k has at most k tokens (as many as
\* k and the number of distinct surviving tokens allow), pairwise distinct,
\* lowercase, surviving tokens of the text; it is ordered by non-increasing
\* frequency, tokens of equal frequency by first occurrence; every token
\* returned is at least as frequent as every surviving token not returned;
\* and it is empty when no token of the text survives.
C14_TopKOrdered ==
    kw_result # <<>> =>
        LET res == kw_result[1]
            toks == Surviving(kw_abstract)
            freq == [w \in Range(toks) |-> Frequency(kw_abstract, w)]
            pos == [w \in Range(toks) |-> FirstOccurrence(kw_abstract, w)]
        IN  /\ Len(res) = Min(kw_k, Cardinality(Range(toks)))
            /\ \A i, j \in 1..Len(res) : res[i] = res[j] => i = j
            /\ \A i \in 1..Len(res) : res[i] \in Range(toks) /\ Lower(res[i]) = res[i]
            /\ \A i, j \in 1..Len(res) :
                   i < j => \/ freq[res[i]] > freq[res[j]]
                            \/ freq[res[i]] = freq[res[j]] /\ pos[res[i]] < pos[res[j]]
            /\ \A w \in Range(toks) \ Range(res) :
                   \A i \in 1..Len(res) : freq[res[i]] >= freq[w]
            /\ toks = <<>> => res = <<>>

\* The call has returned one keyword for a text with two distinct surviving
\* tokens, and the one returned is the more frequent, not the first.
C14_Witness ==
    /\ kw_result # <<>>
    /\ kw_k = 1
    /\ Len(kw_result[1]) = 1
    /\ Cardinality(Range(Surviving(kw_abstract))) = 2
    /\ kw_result[1][1] # Surviving(kw_abstract)[1]
    /\ Frequency(kw_abstract, kw_result[1][1]) = 2

---------------------------------------------------------------------------
(***************************************************************************)
(* Table provisioning: ensure_table of load_data.py, called by the loader  *)
(* runs before they load, against a store whose table is absent or in one  *)
(* of the states DescribeTable reports.  The waiters (table_exists) poll   *)
(* DescribeTable until it reports ACTIVE, and give up with WaiterError     *)
(* when their attempts are used up.                                        *)
(***************************************************************************)
TableStatuses == {"ABSENT", "CREATING", "ACTIVE", "UPDATING", "DELETING"}

ProvisionInit ==
    /\ table_status \in TableStatuses
    /\ ens_pc = [l \in Loaders |-> "start"]
    /\ ens_found = [l \in Loaders |-> "none"]
    /\ ens_seen = [l \in Loaders |-> "none"]
    /\ ens_error = [l \in Loaders |-> "none"]
    /\ creates = 0
    /\ table = {}
    /\ papers = <<>>
    /\ pc = [l \in Loaders |-> "idle"]
    /\ idx = [l \in Loaders |-> 0]
    /\ todo = [l \in Loaders |-> <<>>]
    /\ buffer = [l \in Loaders |-> <<>>]
    /\ inflight = [l \in Loaders |-> <<>>]
    /\ total_papers = [l \in Loaders |-> 0]
    /\ total_items = [l \in Loaders |-> 0]
    /\ counts = [l \in Loaders |-> ZeroCounts]
    /\ overlap = "none"
    /\ afterFirst = <<>>
    /\ NoExtraction

\* A describe that takes every table it finds as usable (the fault C12 excludes).
DescribeTable_NoWait(l) ==
    /\ ens_pc[l] = "start"
    /\ ens_found' = [ens_found EXCEPT ![l] = table_status]
    /\ ens_seen' = [ens_seen EXCEPT ![l] = table_status]
    /\ ens_pc' = [ens_pc EXCEPT ![l] =
           IF table_status = "ABSENT" THEN "create" ELSE "returned"]
    /\ UNCHANGED <<table_status, ens_error, creates, loaderVars, extractVars>>

\* ensure_table: describe_table.  ResourceNotFoundException leads on to
\* create_table; a table that is ACTIVE or UPDATING is returned at once; for
\* any other status the table_exists waiter is started.
DescribeTable(l) ==
    /\ ens_pc[l] = "start"
    /\ ens_found' = [ens_found EXCEPT ![l] = table_status]
    /\ ens_seen' = [ens_seen EXCEPT ![l] = table_status]
    /\ ens_pc' = [ens_pc EXCEPT ![l] =
           IF table_status = "ABSENT" THEN "create"
           ELSE IF table_status \in {"ACTIVE", "UPDATING"} THEN "returned"
           ELSE "waiting"]
    /\ UNCHANGED <<table_status, ens_error, creates, loaderVars, extractVars>>

\* ensure_table: create_table.  The store accepts the request for an absent
\* table and refuses it with ResourceInUseException for any other, which
\* ensure_table does not catch.
CreateTable(l) ==
    /\ ens_pc[l] = "create"
    /\ IF table_status = "ABSENT"
       THEN /\ table_status' = "CREATING"
            /\ creates' = creates + 1
            /\ ens_pc' = [ens_pc EXCEPT ![l] = "waiting"]
            /\ UNCHANGED ens_error
       ELSE /\ ens_pc' = [ens_pc EXCEPT ![l] = "failed"]
            /\ ens_error' = [ens_error EXCEPT ![l] = "ResourceInUseException"]
            /\ UNCHANGED <<table_status, creates>>
    /\ UNCHANGED <<ens_found, ens_seen, loaderVars, extractVars>>

\* waiter.wait / table.wait_until_exists: a poll finds the table ACTIVE, and
\* ensure_table returns it.
WaiterSucceeds(l) ==
    /\ ens_pc[l] = "waiting"
    /\ table_status = "ACTIVE"
    /\ ens_seen' = [ens_seen EXCEPT ![l] = table_status]
    /\ ens_pc' = [ens_pc EXCEPT ![l] = "returned"]
    /\ UNCHANGED <<table_status, ens_found, ens_error, creates, loaderVars, extractVars>>

\* waiter.wait / table.wait_until_exists: the last poll allowed finds the
\* table absent or not ACTIVE, and the waiter raises WaiterError.
WaiterGivesUp(l) ==
    /\ ens_pc[l] = "waiting"
    /\ table_status # "ACTIVE"
    /\ ens_seen' = [ens_seen EXCEPT ![l] = table_status]
    /\ ens_pc' = [ens_pc EXCEPT ![l] = "failed"]
    /\ ens_error' = [ens_error EXCEPT ![l] = "WaiterError"]
    /\ UNCHANGED <<table_status, ens_found, creates, loaderVars, extractVars>>

\* The store finishes what it is doing with the table.
StoreProgress ==
    /\ table_status \in {"CREATING", "UPDATING", "DELETING"}
    /\ table_status' = IF table_status = "DELETING" THEN "ABSENT" ELSE "ACTIVE"
    /\ UNCHANGED <<ens_pc, ens_found, ens_seen, ens_error, creates, loaderVars, extractVars>>

ProvisionNext ==
    \/ \E l \in Loaders :
          \/ DescribeTable(l)
          \/ CreateTable(l)
          \/ WaiterSucceeds(l)
          \/ WaiterGivesUp(l)
    \/ StoreProgress

ProvisionSpec == ProvisionInit /\ [][ProvisionNext]_vars

---------------------------------------------------------------------------
(***************************************************************************)
(* C12, C18: what ensure_table does to the table and when it returns.      *)
(***************************************************************************)
\* What holds of every call whatever "ready" means: create_table is called
\* only by a call whose describe_table found no table, a call that found a
\* table only waits, and a call that found the table CREATING or DELETING
\* returns only after a poll that reported ACTIVE, or fails with WaiterError.
C12_CreateOnlyIfAbsent ==
    \A l \in Loaders :
        /\ (ens_pc[l] = "create" \/ ens_error[l] = "ResourceInUseException") =>
               ens_found[l] = "ABSENT"
        /\ creates > 0 => \E k \in Loaders : ens_found[k] = "ABSENT"
        /\ (ens_found[l] \in {"CREATING", "DELETING"} /\ ens_pc[l] = "returned") =>
               ens_seen[l] = "ACTIVE"
        /\ (ens_found[l] \in {"CREATING", "DELETING"} /\ ens_pc[l] = "failed") =>
               ens_error[l] = "WaiterError"

\* C12 as stated: besides, every call returns only on a response that
\* reported the table ACTIVE.
C12_ReturnsOnlyActive ==
    /\ C12_CreateOnlyIfAbsent
    /\ \A l \in Loaders : ens_pc[l] = "returned" => ens_seen[l] = "ACTIVE"

\* C12: ensure_table calls create_table only after its describe_table found
\* no table, sends no request that changes the table once it found one, and
\* returns the table only on a response that reported it ACTIVE, or at once
\* when its describe_table reported UPDATING; a table found CREATING or
\* DELETING is waited for until ACTIVE, or the call fails with WaiterError.
C12_ReturnsWhenUsable ==
    /\ C12_CreateOnlyIfAbsent
    /\ \A l \in Loaders :
          ens_pc[l] = "returned" =>
              \/ ens_seen[l] = "ACTIVE"
              \/ ens_seen[l] = "UPDATING" /\ ens_found[l] = "UPDATING"

\* One call found the table mid-creation and returned it after the wait,
\* another found it absent, created it and returned it.
C12_Witness ==
    \E l, k \in Loaders :
        /\ ens_found[l] = "CREATING" /\ ens_pc[l] = "returned" /\ ens_seen[l] = "ACTIVE"
        /\ ens_found[k] = "ABSENT" /\ ens_pc[k] = "returned" /\ creates = 1

\* C18: when both calls found the table absent, neither fails for another
\* reason than the timeout of its wait, and the store accepts at most one
\* create_table.
C18_ConcurrentEnsure ==
    (\A l \in Loaders : ens_found[l] = "ABSENT") =>
        /\ \A l \in Loaders : ens_pc[l] = "failed" => ens_error[l] = "WaiterError"
        /\ creates <= 1

======================================================================
